---- MODULE Spec2Model ----
(***************************************************************************)
(* Fetcher API: a FastAPI application (src/main.py) that answers           *)
(* GET /search and GET /stats from one scrape of an OLX result page        *)
(* (src/olx_client.py).                                                    *)
(*                                                                         *)
(* Representation.                                                         *)
(*  - A Python str that the code inspects character by character (price    *)
(*    text, detail chips) is a sequence of one-character strings.          *)
(*  - Optional[T] is a sequence of length at most one: None is <<>>,       *)
(*    a present value v is <<v>>.                                          *)
(*  - A price (Python float) is a whole number of centavos; the price      *)
(*    texts of the modelled pages carry at most two decimals.              *)
(*  - A card is the part of a section.olx-adcard element the extractor     *)
(*    reads: its identifier, its price text, its detail chips, and         *)
(*    whether traversing it raises.                                        *)
(***************************************************************************)
EXTENDS Integers, Sequences, FiniteSets, TLC

VARIABLES
    API_KEY,              \* main.py:11, read once from the environment
    default_data_coleta,  \* olx_client.py:29, the dataclass default, evaluated once
    clock,                \* time.time()
    pc,                   \* where control is
    req,                  \* the request being handled; NoReq for a direct call
    site,                 \* how the classifieds site answers
    started,              \* clock when the request, or the direct call, began
    gets,                 \* outbound GETs issued since then
    args,                 \* max_price and max_items of the running search_olx
    cards,                \* soup.select("section.olx-adcard")
    idx,                  \* cards the loop has taken up
    results,              \* search_olx's results
    built,                \* clock when each Listing of results was constructed
    resp                  \* the HTTP response

vars == <<API_KEY, default_data_coleta, clock, pc, req, site, started, gets, args,
          cards, idx, results, built, resp>>

(***************************************************************************)
(* Bounds of the model.                                                    *)
(***************************************************************************)
MaxCards == 82      \* cards on a result page served to the API
MaxMixed == 30      \* cards on a served page that mixes the kinds of card
MaxPage == 5        \* largest page number requested
MaxDocLen == 3      \* cards on a page given to a direct call of search_olx
MaxItemsArg == 2    \* largest max_items of a direct call
MaxChips == 3       \* detail chips on one card
MaxClock == 2       \* clock ticks

(***************************************************************************)
(* Python values.                                                          *)
(***************************************************************************)
None == <<>>
Some(v) == <<v>>
IsNone(o) == o = <<>>
Val(o) == o[1]

Digits == {"0", "1", "2", "3", "4", "5", "6", "7", "8", "9"}
IsDigit(c) == c \in Digits
IsSpace(c) == c = " "

DigitVal(c) ==
    CASE c = "0" -> 0 [] c = "1" -> 1 [] c = "2" -> 2 [] c = "3" -> 3
      [] c = "4" -> 4 [] c = "5" -> 5 [] c = "6" -> 6 [] c = "7" -> 7
      [] c = "8" -> 8 [] c = "9" -> 9

\* str.lower() on the letters that occur in the modelled pages
LowerChar(c) ==
    CASE c = "K" -> "k" [] c = "M" -> "m" [] c = "A" -> "a"
      [] c = "F" -> "f" [] c = "L" -> "l" [] c = "E" -> "e" [] c = "X" -> "x"
      [] c = "N" -> "n" [] c = "U" -> "u"
      [] OTHER -> c

Lower(s) == [i \in 1..Len(s) |-> LowerChar(s[i])]

\* s[i:] starts with sub
StartsAt(s, i, sub) ==
    /\ i + Len(sub) - 1 <= Len(s)
    /\ \A k \in 1..Len(sub) : s[i + k - 1] = sub[k]

\* Python's `sub in s`
Contains(sub, s) == \E i \in 1..(Len(s) + 1) : StartsAt(s, i, sub)

\* str.replace(sub, rep): non-overlapping occurrences, left to right
RECURSIVE ReplaceFrom(_, _, _, _)
ReplaceFrom(s, i, sub, rep) ==
    IF i > Len(s) THEN <<>>
    ELSE IF StartsAt(s, i, sub)
         THEN rep \o ReplaceFrom(s, i + Len(sub), sub, rep)
         ELSE <<s[i]>> \o ReplaceFrom(s, i + 1, sub, rep)

Replace(s, sub, rep) == ReplaceFrom(s, 1, sub, rep)

\* str.strip()
RECURSIVE LStrip(_)
LStrip(s) == IF s # <<>> /\ IsSpace(s[1]) THEN LStrip(Tail(s)) ELSE s

RECURSIVE RStrip(_)
RStrip(s) ==
    IF s # <<>> /\ IsSpace(s[Len(s)]) THEN RStrip(SubSeq(s, 1, Len(s) - 1)) ELSE s

Strip(s) == RStrip(LStrip(s))

\* int() of a string of decimal digits
RECURSIVE IntOf(_)
IntOf(ds) ==
    IF ds = <<>> THEN 0
    ELSE 10 * IntOf(SubSeq(ds, 1, Len(ds) - 1)) + DigitVal(ds[Len(ds)])

\* end (exclusive) of the longest run from i of characters in cs
RECURSIVE RunEnd(_, _, _)
RunEnd(s, i, cs) ==
    IF i <= Len(s) /\ s[i] \in cs THEN RunEnd(s, i + 1, cs) ELSE i

\* smallest member of a non-empty set of integers
Least(S) == CHOOSE x \in S : \A y \in S : x <= y

(***************************************************************************)
(* Text of the modelled pages.  An accented character is one character,    *)
(* written by name.                                                        *)
(***************************************************************************)
KM == <<"k", "m">>
MANUAL == <<"m", "a", "n", "u", "a", "l">>
AUTOMATICO == <<"a", "u", "t", "o", "m", "a_acute", "t", "i", "c", "o">>
AUTOMATICA == <<"a", "u", "t", "o", "m", "a", "t", "i", "c", "a">>
FLEX == <<"f", "l", "e", "x">>
GASOLINA == <<"g", "a", "s", "o", "l", "i", "n", "a">>
DIESEL == <<"d", "i", "e", "s", "e", "l">>
ALCOOL_ACUTE == <<"a_acute", "l", "c", "o", "o", "l">>
ALCOOL == <<"a", "l", "c", "o", "o", "l">>
ETANOL == <<"e", "t", "a", "n", "o", "l">>
FuelWords == {FLEX, GASOLINA, DIESEL, ALCOOL_ACUTE, ALCOOL, ETANOL}

\* detail chips as they stand in the page
ChipKm73 == <<"7", "3", ".", "0", "0", "0", " ", "K", "M">>
ChipKmOnly == <<"k", "m">>
ChipKm9Manual == <<"9", "k", "m", " ">> \o MANUAL
ChipManual == <<"M", "a", "n", "u", "a", "l">>
ChipManualFlex == MANUAL \o <<" ">> \o FLEX
ChipFlex == <<"F", "l", "e", "x">>
ChipDiesel == DIESEL
ChipDoors == <<"4", "p">>
ChipTexts == {ChipKm73, ChipKmOnly, ChipKm9Manual, ChipManual, ChipManualFlex,
              ChipFlex, ChipDiesel, ChipDoors}

\* price texts as they stand in the page
Price12345 == <<"R", "$", " ", "1", "2", ".", "3", "4", "5", ",", "6", "7">>
Price30000 == <<"R", "$", " ", "3", "0", ".", "0", "0", "0">>
Price45000 == <<"R", "$", " ", "4", "5", ".", "0", "0", "0", ",", "0", "0">>
PriceAsk == <<"c", "o", "n", "s", "u", "l", "t", "e">>

(***************************************************************************)
(* Text normalisers (olx_client.py).                                       *)
(***************************************************************************)
\* float(int "." frac) in centavos
FloatOf(ip, fp) ==
    IntOf(ip) * 100
      + (IF Len(fp) = 0 THEN 0
         ELSE IF Len(fp) = 1 THEN 10 * DigitVal(fp[1])
         ELSE IntOf(SubSeq(fp, 1, 2)))

\* m.group(1) of re.search(r"(\d+(\.\d+)?)", txt) when \d+ is txt[i..j-1]
PriceGroup(txt, i, j) ==
    IF j + 1 <= Len(txt) /\ txt[j] = "." /\ IsDigit(txt[j + 1])
    THEN <<SubSeq(txt, i, j - 1), SubSeq(txt, j + 1, RunEnd(txt, j + 1, Digits) - 1)>>
    ELSE <<SubSeq(txt, i, j - 1), <<>>>>

FloatOfGroup(g) == FloatOf(g[1], g[2])

\* re.search(r"(\d+(\.\d+)?)", txt): the leftmost digit starts the match
PriceSearch(txt) ==
    LET starts == {i \in 1..Len(txt) : IsDigit(txt[i])}
    IN IF starts = {} THEN None
       ELSE Some(FloatOfGroup(PriceGroup(txt, Least(starts),
                                         RunEnd(txt, Least(starts), Digits))))

_parse_price(text) ==
    IF IsNone(text) \/ Val(text) = <<>> THEN None
    ELSE PriceSearch(Replace(Strip(Replace(Replace(Replace(Val(text),
                                                           <<"R", "$">>, <<>>),
                                                   <<".">>, <<>>),
                                           <<" ">>, <<>>)),
                             <<",">>, <<".">>))

\* re.search(r"(\d[\d\.]*)\s*km", s) matches at i.  Neither run can give a
\* character back: what follows a shorter run is a character of the run, which
\* is neither white space nor "k".
KmMatchAt(s, i) ==
    /\ IsDigit(s[i])
    /\ StartsAt(s, RunEnd(s, RunEnd(s, i + 1, Digits \cup {"."}), {" "}), KM)

\* int(m.group(1).replace(".", "")) for the match that starts at i
KmGroupInt(s, i) ==
    IntOf(Replace(SubSeq(s, i, RunEnd(s, i + 1, Digits \cup {"."}) - 1),
                  <<".">>, <<>>))

KmSearch(s) ==
    LET starts == {i \in 1..Len(s) : KmMatchAt(s, i)}
    IN IF starts = {} THEN None ELSE Some(KmGroupInt(s, Least(starts)))

_parse_km(text) ==
    IF IsNone(text) \/ Val(text) = <<>> THEN None
    ELSE KmSearch(Lower(Val(text)))

(***************************************************************************)
(* Listing extractor (olx_client.py, search_olx).                          *)
(***************************************************************************)
\* the dataclass: fonte and data_coleta take their class-level defaults
OlxListing(id, preco, km, cambio, combustivel) ==
    [id |-> id, preco |-> preco, km |-> km, cambio |-> cambio,
     combustivel |-> combustivel, fonte |-> "olx",
     data_coleta |-> default_data_coleta]

IsCambioChip(chip) ==
    Contains(MANUAL, chip) \/ Contains(AUTOMATICO, chip) \/ Contains(AUTOMATICA, chip)

IsFuelChip(chip) == \E x \in FuelWords : Contains(x, chip)

\* a pass that looks for the transmission words before "km"
ChipStep_CambioFirst(acc, chip) ==
    IF IsCambioChip(chip) THEN [acc EXCEPT !.cambio = Some(chip)]
    ELSE IF Contains(KM, chip) THEN [acc EXCEPT !.km_val = _parse_km(Some(chip))]
    ELSE IF IsFuelChip(chip) THEN [acc EXCEPT !.combustivel = Some(chip)]
    ELSE acc

\* one pass of `for chip in chips`
ChipStep(acc, chip) ==
    IF Contains(KM, chip) THEN [acc EXCEPT !.km_val = _parse_km(Some(chip))]
    ELSE IF IsCambioChip(chip) THEN [acc EXCEPT !.cambio = Some(chip)]
    ELSE IF IsFuelChip(chip) THEN [acc EXCEPT !.combustivel = Some(chip)]
    ELSE acc

RECURSIVE ChipLoop(_, _, _)
ChipLoop(chips, i, acc) ==
    IF i > Len(chips) THEN acc
    ELSE ChipLoop(chips, i + 1, ChipStep(acc, chips[i]))

\* chips = [d.get_text(" ", strip=True).lower() for d in detail_elems]
LowerAll(chips) == [i \in 1..Len(chips) |-> Lower(chips[i])]

\* km_val, cambio and combustivel of a card
Details(card) ==
    ChipLoop(LowerAll(card.chips), 1,
             [km_val |-> None, cambio |-> None, combustivel |-> None])

\* a filter that also drops a listing priced exactly at the ceiling
AboveCeiling_Inclusive(preco, max_price) ==
    /\ ~IsNone(max_price)
    /\ ~IsNone(preco)
    /\ Val(preco) >= Val(max_price)

\* the filter at the end of the loop body: TRUE when the listing is dropped
AboveCeiling(preco, max_price) ==
    /\ ~IsNone(max_price)
    /\ ~IsNone(preco)
    /\ Val(preco) > Val(max_price)

\* the end of the loop body: drop the listing or hand it to the append
FilterListing(listing, max_price) ==
    IF AboveCeiling(listing.preco, max_price)
    THEN [kind |-> "discard"]
    ELSE [kind |-> "append", listing |-> listing]

ListingOf(card, preco, d) ==
    OlxListing(card.ad_id, preco, d.km_val, d.cambio, d.combustivel)

\* the body of `for card in cards` up to the append: what becomes of one card
ProcessCard(card, max_price) ==
    IF card.raises THEN [kind |-> "raise"]
    ELSE FilterListing(ListingOf(card, _parse_price(card.price_text), Details(card)),
                       max_price)

\* the test after results.append(listing)
CapReached(res, max_items) == Len(res) >= max_items

\* a search_olx that tries the GET again after a network error
GetsPerCall_Retry(page) == IF page.kind = "neterr" THEN 2 ELSE 1

\* requests.get calls made by one call of search_olx
GetsPerCall(page) == 1

\* the page is parsed only when the GET succeeded with status 200
PageParsed(page) == page.kind # "neterr" /\ page.status = 200

(***************************************************************************)
(* API layer (main.py).                                                    *)
(***************************************************************************)
PAGE_SIZE == 20           \* page_size
SEARCH_MAX_ITEMS == 80    \* max_items the handlers pass to search_olx
DEFAULT_MAX_ITEMS == 50   \* search_olx's default max_items
MOCK_N == 62              \* n of the first /stats handler

\* a rational number num/den: a float that is no whole number of centavos
Rat(num, den) == [num |-> num, den |-> den]

\* a key check that lets a request without the header through
_check_api_key_PresentOnly(x_api_key) ==
    API_KEY # "" /\ x_api_key # None /\ x_api_key # Some(API_KEY)

\* raises HTTPException(401) when TRUE
_check_api_key(x_api_key) == API_KEY # "" /\ x_api_key # Some(API_KEY)

\* the route table, in the order the decorators ran
Routes ==
    << [path |-> "/health", endpoint |-> "health"],
       [path |-> "/stats", endpoint |-> "stats_first"],
       [path |-> "/search", endpoint |-> "search"],
       [path |-> "/stats", endpoint |-> "stats"] >>

\* the first route whose path matches handles the request
Dispatch(path) ==
    Routes[Least({i \in 1..Len(Routes) : Routes[i].path = path})].endpoint

\* the endpoints whose body calls search_olx
CallsSearchOlx(endpoint) == endpoint \in {"search", "stats"}

\* the max_price and max_items an endpoint passes to search_olx
SearchOlxArgs(endpoint, r) ==
    [max_price |-> IF endpoint = "search" THEN r.max_price ELSE None,
     max_items |-> SEARCH_MAX_ITEMS]

\* Python's s[a:b]
SliceIndex(i, n) ==
    IF i < 0 THEN (IF i + n < 0 THEN 0 ELSE i + n)
    ELSE IF i > n THEN n ELSE i

PySlice(s, a, b) ==
    LET lo == SliceIndex(a, Len(s))
        hi == SliceIndex(b, Len(s))
    IN IF lo >= hi THEN <<>> ELSE SubSeq(s, lo + 1, hi)

\* OlxListing -> Listing, field by field
Listing(l) ==
    [id |-> l.id, preco |-> l.preco, km |-> l.km, cambio |-> l.cambio,
     combustivel |-> l.combustivel, data_coleta |-> l.data_coleta,
     fonte |-> l.fonte]

\* a page offset that counts pages from zero
PageStart_FromZero(page) == page * PAGE_SIZE

\* start = (page - 1) * page_size
PageStart(page) == (page - 1) * PAGE_SIZE

NextPage(page, end, count) == IF end < count THEN Some(page + 1) ELSE None

\* GET /search once search_olx has returned raw_listings
search(r, raw_listings) ==
    LET start == PageStart(r.page)
        end == start + PAGE_SIZE
        page_items == PySlice(raw_listings, start, end)
        items == [i \in 1..Len(page_items) |-> Listing(page_items[i])]
    IN [status |-> 200, items |-> items, count |-> Len(raw_listings),
        next_page |-> NextPage(r.page, end, Len(raw_listings))]

\* `base` of the first /stats handler
MockBase(ano) ==
    LET d == 60000 - (2025 - (IF Val(ano) = 0 THEN 2020 ELSE Val(ano))) * 2000
    IN IF d > 35000 THEN d ELSE 35000

\* GET /stats after the key check, first definition (main.py:58): fixed figures
stats_first(r) ==
    LET base == IF IsNone(r.ano) THEN 55000 ELSE MockBase(r.ano)
    IN [status |-> 200, n |-> MOCK_N,
        media |-> Some(Rat(base * 100, 1)),
        mediana |-> Some(Rat(base * 98, 1)),
        p25 |-> Some(Rat(base * 93, 1)),
        p75 |-> Some(Rat(base * 105, 1)),
        updated_at |-> clock]

RECURSIVE SumSeq(_)
SumSeq(s) == IF s = <<>> THEN 0 ELSE s[1] + SumSeq(Tail(s))

\* [l.preco for l in listings if l.preco is not None]
RECURSIVE PresentPrices(_)
PresentPrices(listings) ==
    IF listings = <<>> THEN <<>>
    ELSE (IF IsNone(listings[1].preco) THEN <<>> ELSE <<Val(listings[1].preco)>>)
           \o PresentPrices(Tail(listings))

\* statistics.median of a sorted sequence
Median(s) ==
    LET n == Len(s)
    IN IF n % 2 = 1 THEN Rat(s[(n \div 2) + 1], 1)
       ELSE Rat(s[n \div 2] + s[(n \div 2) + 1], 2)

\* percentile(pn/pd) of a sorted sequence
Percentile(s, pn, pd) ==
    LET knum == (Len(s) - 1) * pn
        f == knum \div pd
        c == IF knum % pd = 0 THEN f ELSE f + 1
    IN IF f = c THEN Rat(s[f + 1], 1)
       ELSE Rat(s[f + 1] * (c * pd - knum) + s[c + 1] * (knum - f * pd), pd)

\* the statistics of a non-empty sorted price list
stats_of(prices_sorted) ==
    [status |-> 200, n |-> Len(prices_sorted),
     media |-> Some(Rat(SumSeq(prices_sorted), Len(prices_sorted))),
     mediana |-> Some(Median(prices_sorted)),
     p25 |-> Some(Percentile(prices_sorted, 1, 4)),
     p75 |-> Some(Percentile(prices_sorted, 3, 4)),
     updated_at |-> clock]

stats_prices(prices) ==
    IF prices = <<>>
    THEN [status |-> 200, n |-> 0, media |-> None, mediana |-> None,
          p25 |-> None, p75 |-> None, updated_at |-> clock]
    ELSE stats_of(SortSeq(prices, LAMBDA a, b : a < b))

\* GET /stats, second definition (main.py:131), once search_olx has returned
stats(r, listings) == stats_prices(PresentPrices(listings))

\* the response of the endpoint the route table chose
Endpoint(name, r, listings) ==
    CASE name = "search" -> search(r, listings)
      [] name = "stats_first" -> stats_first(r)
      [] name = "stats" -> stats(r, listings)

(***************************************************************************)
(* Inputs.                                                                 *)
(***************************************************************************)
Card(ad_id, price_text, chips, raises) ==
    [ad_id |-> ad_id, price_text |-> price_text, chips |-> chips,
     raises |-> raises]

\* kinds of card: priced below, at and above the ceiling asked for, priced in
\* words, and one whose traversal raises
CardOfKind(ad_id, kind) ==
    Card(ad_id,
         Some(CASE kind = "equal" -> Price30000
                [] kind = "dear" -> Price45000
                [] kind = "ask" -> PriceAsk
                [] OTHER -> Price12345),
         <<>>,
         kind = "raises")

CardKinds == {"cheap", "equal", "dear", "ask", "raises"}

Ceiling == 30000 * 100    \* max_price=30000.00, in centavos
MaxPrices == {None, Some(Ceiling)}

\* a page of n cards whose kinds repeat pat; the site numbers its cards
PatternDoc(n, pat) ==
    [i \in 1..n |-> CardOfKind(i, pat[((i - 1) % Len(pat)) + 1])]

\* pages served to the API: priced cards only, or the five kinds in turn
ApiDocs ==
    {PatternDoc(n, <<"cheap">>) : n \in 0..MaxCards}
    \cup
    {PatternDoc(n, <<"cheap", "dear", "raises", "equal", "ask">>) : n \in 0..MaxMixed}

\* how the site answers: a network error, or an HTTP status
SiteUp == [kind |-> "http", status |-> 200]
Sites == { [kind |-> "neterr", status |-> 0], SiteUp,
           [kind |-> "http", status |-> 503] }

Headers == {None, Some("dev-key"), Some("wrong")}

Requests ==
    { [path |-> "/search", x_api_key |-> h, ano |-> None, max_price |-> m,
       page |-> p] : h \in Headers, m \in MaxPrices, p \in 0..MaxPage }
    \cup
    { [path |-> pa, x_api_key |-> h, ano |-> a, max_price |-> None, page |-> 1] :
        pa \in {"/stats", "/health"}, h \in Headers, a \in {None, Some(2015)} }

NoReq == [path |-> ""]
NoResp == [status |-> 0]
NoArgs == [max_items |-> -1]

(***************************************************************************)
(* search_olx, step by step (olx_client.py:120).                           *)
(***************************************************************************)
\* from the call to the start of the loop: the GET, the status test, the parse
EnterSearchOlx(a, page, docs) ==
    /\ args' = a
    /\ gets' = gets + GetsPerCall(page)
    /\ idx' = 0
    /\ results' = <<>>
    /\ built' = <<>>
    /\ \E d \in docs :
         /\ cards' = IF PageParsed(page) THEN d ELSE <<>>
         /\ pc' = IF PageParsed(page) /\ d # <<>> THEN "loop" ELSE "returned"

LoopGoesOn(n) == IF n < Len(cards) THEN "loop" ELSE "returned"

\* results.append(listing), then the cap test
AppendListing(listing) ==
    /\ results' = Append(results, listing)
    /\ built' = Append(built, clock)
    /\ IF CapReached(Append(results, listing), args.max_items)
       THEN pc' = "returned"
       ELSE pc' = LoopGoesOn(idx + 1)

\* r: what became of the card
AfterCard(r) ==
    IF r.kind = "append"
    THEN AppendListing(r.listing)
    ELSE /\ pc' = LoopGoesOn(idx + 1)
         /\ UNCHANGED <<results, built>>

\* one pass of `for card in cards`
CardStep ==
    /\ pc = "loop"
    /\ idx' = idx + 1
    /\ AfterCard(ProcessCard(cards[idx + 1], args.max_price))
    /\ UNCHANGED <<API_KEY, default_data_coleta, clock, req, site, started, gets,
                   args, cards, resp>>

(***************************************************************************)
(* The application: one request at a time.                                 *)
(***************************************************************************)
Init ==
    /\ API_KEY \in {"", "dev-key"}
    /\ clock = 0
    /\ default_data_coleta = 0
    /\ pc = "idle"
    /\ req = NoReq
    /\ site = SiteUp
    /\ started = 0
    /\ gets = 0
    /\ args = NoArgs
    /\ cards = <<>>
    /\ idx = 0
    /\ results = <<>>
    /\ built = <<>>
    /\ resp = NoResp

Receive ==
    /\ pc = "idle"
    /\ \E r \in Requests, s \in Sites :
         /\ req' = r
         /\ site' = s
    /\ pc' = "routed"
    /\ started' = clock
    /\ UNCHANGED <<API_KEY, default_data_coleta, clock, gets, args, cards, idx,
                   results, built, resp>>

\* the response is sent; what the request held is dropped
Finish ==
    /\ pc = "done"
    /\ pc' = "idle"
    /\ req' = NoReq
    /\ site' = SiteUp
    /\ started' = 0
    /\ gets' = 0
    /\ args' = NoArgs
    /\ cards' = <<>>
    /\ idx' = 0
    /\ results' = <<>>
    /\ built' = <<>>
    /\ resp' = NoResp
    /\ UNCHANGED <<API_KEY, default_data_coleta, clock>>

\* GET /health: no key check
Health ==
    /\ pc = "routed"
    /\ Dispatch(req.path) = "health"
    /\ resp' = [status |-> 200, body_status |-> "ok", ts |-> clock]
    /\ pc' = "done"
    /\ UNCHANGED <<API_KEY, default_data_coleta, clock, req, site, started, gets,
                   args, cards, idx, results, built>>

\* the first statement of search and of both stats
CheckApiKey ==
    /\ pc = "routed"
    /\ Dispatch(req.path) # "health"
    /\ IF _check_api_key(req.x_api_key)
       THEN /\ resp' = [status |-> 401, detail |-> "Invalid API key"]
            /\ pc' = "done"
       ELSE /\ resp' = resp
            /\ pc' = "authed"
    /\ UNCHANGED <<API_KEY, default_data_coleta, clock, req, site, started, gets,
                   args, cards, idx, results, built>>

\* the handler calls search_olx
HandlerCalls ==
    /\ pc = "authed"
    /\ CallsSearchOlx(Dispatch(req.path))
    /\ EnterSearchOlx(SearchOlxArgs(Dispatch(req.path), req), site, ApiDocs)
    /\ UNCHANGED <<API_KEY, default_data_coleta, clock, req, site, started, resp>>

\* the handler builds its response: after search_olx returned, or at once
Respond ==
    /\ req # NoReq
    /\ \/ pc = "returned"
       \/ pc = "authed" /\ ~CallsSearchOlx(Dispatch(req.path))
    /\ resp' = Endpoint(Dispatch(req.path), req, results)
    /\ pc' = "done"
    /\ UNCHANGED <<API_KEY, default_data_coleta, clock, req, site, started, gets,
                   args, cards, idx, results, built>>

Next == Receive \/ Health \/ CheckApiKey \/ HandlerCalls \/ CardStep \/ Respond \/ Finish

Spec == Init /\ [][Next]_vars

(***************************************************************************)
(* search_olx called directly, while time passes.                          *)
(***************************************************************************)
RECURSIVE SeqsUpTo(_, _)
SeqsUpTo(S, n) ==
    IF n = 0 THEN {<<>>}
    ELSE LET shorter == SeqsUpTo(S, n - 1)
         IN shorter \cup {Append(q, x) : q \in {t \in shorter : Len(t) = n - 1}, x \in S}

KindDocs ==
    { [i \in 1..Len(ks) |-> CardOfKind(i, ks[i])] : ks \in SeqsUpTo(CardKinds, MaxDocLen) }

\* one card without a price element, with every sequence of chips
ChipDocs ==
    { <<Card(1, None, cs, FALSE)>> : cs \in SeqsUpTo(ChipTexts, MaxChips) }

Calls ==
    { [site |-> SiteUp, cards |-> d, max_price |-> m, max_items |-> k] :
        d \in KindDocs, m \in MaxPrices, k \in 0..MaxItemsArg }
    \cup
    { [site |-> SiteUp, cards |-> d, max_price |-> None,
       max_items |-> DEFAULT_MAX_ITEMS] : d \in ChipDocs }
    \cup
    { [site |-> s, cards |-> <<>>, max_price |-> None,
       max_items |-> DEFAULT_MAX_ITEMS] : s \in Sites }

\* the module was imported at clock 0; the call is made at any later time
DirectCall ==
    /\ pc = "idle"
    /\ \E c \in Calls :
         /\ site' = c.site
         /\ EnterSearchOlx([max_price |-> c.max_price, max_items |-> c.max_items],
                           c.site, {c.cards})
    /\ started' = clock
    /\ UNCHANGED <<API_KEY, default_data_coleta, clock, req, resp>>

\* time passes until the call returns
Tick ==
    /\ clock < MaxClock
    /\ pc # "returned"
    /\ clock' = clock + 1
    /\ UNCHANGED <<API_KEY, default_data_coleta, pc, req, site, started, gets, args,
                   cards, idx, results, built, resp>>

InitExtract == Init /\ API_KEY = "dev-key"

NextExtract == DirectCall \/ CardStep \/ Tick

SpecExtract == InitExtract /\ [][NextExtract]_vars

(***************************************************************************)
(* Properties.                                                             *)
(***************************************************************************)
Min(a, b) == IF a < b THEN a ELSE b

\* the request is one the key check lets through
KeyAccepted == API_KEY = "" \/ req.x_api_key = Some(API_KEY)

\* the price of a card is present and above the ceiling asked for
Exceeds(card, max_price) ==
    LET p == _parse_price(card.price_text)
    IN max_price # None /\ p # None /\ Val(p) > Val(max_price)

\* the cards taken up so far that neither raised nor exceeded the ceiling
KeptCards(n) ==
    {j \in 1..n : ~cards[j].raises /\ ~Exceeds(cards[j], args.max_price)}

\* the k-th smallest member of S
Nth(S, k) == CHOOSE j \in S : Cardinality({x \in S : x <= j}) = k

\* C1: on /search and /stats, with a non-empty configured key a request whose
\* x-api-key is missing or different ends with 401 and one whose header equals
\* the key ends with 200; with an empty configured key no request ends with 401.
C1_KeyDecidesStatus ==
    (pc = "done" /\ req.path \in {"/search", "/stats"}) =>
        /\ (API_KEY # "" /\ req.x_api_key # Some(API_KEY)) => resp.status = 401
        /\ (API_KEY # "" /\ req.x_api_key = Some(API_KEY)) => resp.status = 200
        /\ API_KEY = "" => resp.status # 401

C1_Witness ==
    /\ pc = "done"
    /\ req.path = "/search"
    /\ API_KEY = "dev-key"
    /\ req.x_api_key = Some("wrong")
    /\ resp.status = 401

\* C2: an authorised /search with page >= 1 answers items = raw[start:end] in
\* order, count = len(raw) (at most 80) and next_page = page + 1 when
\* end < count, null otherwise, where start = (page-1)*20 and end = start+20.
C2_Pagination ==
    (pc = "done" /\ req.path = "/search" /\ resp.status = 200 /\ req.page >= 1) =>
        LET count == Len(results)
            start == (req.page - 1) * 20
            end == start + 20
            from == Min(start, count)
            to == Min(end, count)
        IN /\ count <= 80
           /\ resp.count = count
           /\ Len(resp.items) = to - from
           /\ \A k \in 1..(to - from) : resp.items[k] = results[from + k]
           /\ resp.next_page = IF end < count THEN Some(req.page + 1) ELSE None

C2_Witness ==
    /\ pc = "done"
    /\ req.path = "/search"
    /\ req.page = 4
    /\ resp.status = 200
    /\ resp.count = 64
    /\ Len(resp.items) = 4
    /\ resp.items[1].id = 61
    /\ resp.next_page = None

\* C3: with max_price given, no listing priced above it is in what search_olx
\* returns, in a /search page or in count; and a card that did not raise and
\* whose price is absent or at most max_price is not removed by the filter.
C3_MaxPriceFilter ==
    (pc = "done" /\ req.path = "/search" /\ resp.status = 200
       /\ req.max_price # None) =>
        LET kept == KeptCards(idx)
        IN /\ \A k \in 1..Len(results) :
                results[k].preco = None \/ Val(results[k].preco) <= Val(req.max_price)
           /\ {results[k].id : k \in 1..Len(results)} = {cards[j].ad_id : j \in kept}
           /\ Len(results) = Cardinality(kept)
           /\ resp.count = Cardinality(kept)
           /\ \A k \in 1..Len(resp.items) :
                \/ resp.items[k].preco = None
                \/ Val(resp.items[k].preco) <= Val(req.max_price)

C3_Witness ==
    /\ pc = "done"
    /\ req.path = "/search"
    /\ resp.status = 200
    /\ req.max_price = Some(Ceiling)
    /\ idx = 5
    /\ Exceeds(cards[2], req.max_price)
    /\ cards[3].raises
    /\ resp.count = 3
    /\ Len(resp.items) = 3
    /\ resp.items[2].preco = Some(Ceiling)
    /\ resp.items[3].preco = None

\* C4: when the outbound GET fails (network error or a status other than 200)
\* an authorised /search answers 200 with no items, count 0 and no next page,
\* an authorised /stats answers 200 with n = 0, and the GET is not retried.
C4_UpstreamFailureIsEmpty ==
    (/\ pc = "done"
     /\ req.path \in {"/search", "/stats"}
     /\ KeyAccepted
     /\ site # SiteUp) =>
        /\ resp.status = 200
        /\ gets <= 1
        /\ req.path = "/search" =>
             (resp.items = <<>> /\ resp.count = 0 /\ resp.next_page = None)
        /\ req.path = "/stats" => resp.n = 0

\* C5: an authorised /stats answers n = 0 with media, mediana, p25 and p75
\* absent when no fetched listing has a price, and otherwise n = the number of
\* fetched listings (at most 80) whose price is present.
C5_StatsCountsPrices ==
    (pc = "done" /\ req.path = "/stats" /\ KeyAccepted) =>
        LET priced == {k \in 1..Len(results) : results[k].preco # None}
        IN /\ resp.status = 200
           /\ Len(results) <= 80
           /\ resp.n = Cardinality(priced)
           /\ priced = {} =>
                (/\ resp.media = None /\ resp.mediana = None
                 /\ resp.p25 = None /\ resp.p75 = None)

\* C6: for every max_items >= 0 search_olx never holds more than max_items
\* listings; discarded and failed cards do not count toward the cap; once an
\* append brings the length to max_items no further card is taken up.
C6_Cap ==
    (args # NoArgs /\ args.max_items >= 0) =>
        /\ Len(results) <= args.max_items
        /\ (pc = "returned" /\ Len(results) < args.max_items) => idx = Len(cards)
        /\ (results # <<>> /\ Len(results) >= args.max_items) => pc # "loop"

\* C7: a card that fails is skipped and the later cards are still taken up:
\* search_olx returns exactly the cards that neither failed nor exceeded
\* max_price, in document order, without duplicates, cut at the item cap.
C7_FailureIsolated ==
    (pc = "returned" /\ req = NoReq) =>
        LET kept == KeptCards(Len(cards))
        IN /\ Len(results) = Min(Cardinality(kept), args.max_items)
           /\ \A k \in 1..Len(results) : results[k].id = cards[Nth(kept, k)].ad_id

\* C8: every Listing carries as data_coleta the clock value at which it was
\* constructed: Listings constructed at different clock values carry different
\* data_coleta, and none is earlier than the start of the call that made it.
C8_FreshTimestamp ==
    /\ \A k \in 1..Len(results) :
         /\ results[k].data_coleta = built[k]
         /\ results[k].data_coleta >= started
    /\ \A j, k \in 1..Len(results) :
         built[j] # built[k] => results[j].data_coleta # results[k].data_coleta

\* the category of a lower-cased chip: mileage first, then transmission, then fuel
ChipCategory(chip) ==
    IF Contains(KM, chip) THEN "km"
    ELSE IF \E w \in {MANUAL, AUTOMATICO, AUTOMATICA} : Contains(w, chip) THEN "cambio"
    ELSE IF \E w \in FuelWords : Contains(w, chip) THEN "combustivel"
    ELSE "none"

\* the last chip of a category, in document order; 0 when there is none
LastOf(chips, cat) ==
    LET S == {i \in 1..Len(chips) : ChipCategory(chips[i]) = cat}
    IN IF S = {} THEN 0 ELSE CHOOSE i \in S : \A j \in S : j <= i

\* C9: each chip belongs to at most one of mileage, transmission, fuel, in that
\* priority; km, cambio and combustivel of a Listing are the value given by the
\* last chip of the category in document order, or absent when there is none.
C9_ChipClassification ==
    \A k \in 1..Len(results) :
        \A j \in 1..Len(cards) :
            cards[j].ad_id = results[k].id =>
                LET chips == [i \in 1..Len(cards[j].chips) |-> Lower(cards[j].chips[i])]
                    km == LastOf(chips, "km")
                    ca == LastOf(chips, "cambio")
                    co == LastOf(chips, "combustivel")
                IN /\ results[k].km = IF km = 0 THEN None ELSE _parse_km(Some(chips[km]))
                   /\ results[k].cambio = IF ca = 0 THEN None ELSE Some(chips[ca])
                   /\ results[k].combustivel = IF co = 0 THEN None ELSE Some(chips[co])

C9_Witness ==
    /\ pc = "returned"
    /\ Len(results) = 1
    /\ cards[1].chips = <<ChipKm73, ChipKm9Manual, ChipManualFlex>>
    /\ results[1].km = Some(9)
    /\ results[1].cambio = Some(MANUAL \o <<" ">> \o FLEX)
    /\ results[1].combustivel = None

\* C10: the key check comes before any outbound GET: a request answered 401
\* has issued none, and no request issues more than one.
C10_CheckBeforeSingleGet ==
    /\ gets <= 1
    /\ gets > 0 => (pc \in {"loop", "returned", "done"} /\ KeyAccepted)
    /\ resp.status = 401 => gets = 0

C10_Witness ==
    /\ pc = "done"
    /\ API_KEY = "dev-key"
    /\ req.path = "/search"
    /\ site.kind = "neterr"
    /\ gets = 1
    /\ resp.status = 200

====
